---- MODULE Spec2Model ----
(***************************************************************************)
(* buttonshutdown-daemon (src/main.cpp) as a state machine.                *)
(*                                                                         *)
(* Every invocation of the program ("instance") runs main(): the           *)
(* privilege check, the helper check, open + lockf on the PID file, fork,  *)
(* the detachment steps of the child, signal(SIGTERM), wiringPiSetup,      *)
(* wiringPiISR and the idle loop.  The callback Button_Pressed runs on the *)
(* dispatcher that wiringPiISR creates for the pin: it calls the callback  *)
(* for a rising edge and calls it again only after it has returned.        *)
(* Daemon_Stop is the SIGTERM handler.                                     *)
(*                                                                         *)
(* Shared by all instances: the level of the pin, the edge mode of the pin *)
(* (set by wiringPiISR and by "gpio edge 0 none"), the PID file and the    *)
(* record lock on it.  lockf() takes a POSIX record lock: it belongs to    *)
(* the process that took it, a child made by fork() does not inherit it,   *)
(* and it is dropped when its owner terminates.                            *)
(***************************************************************************)
EXTENDS Integers, Sequences, FiniteSets, TLC

\* Number of times the button is pressed in a run of the model.
MaxPresses == 2

\* sleep(2) in Button_Pressed: the classification window, in seconds.
SleepSecs == 2

\* The invocations of the program: a first one and a second one, which may
\* be started at any time before, while or after the first one runs.
Inst == {1, 2}

\* Process identifiers the kernel may hand to a forked child.
PidPool == {7, 12}

\* Effective user ids an invocation may run under (0 is root).
Euids == {0, 1000}

LOW == "LOW"
HIGH == "HIGH"

\* The two process images Button_Pressed may execl(): path and argv.
POWER_OFF == <<"/sbin/poweroff", <<"poweroff">> >>
RESTART == <<"/sbin/shutdown", <<"shutdown", "-r", "now">> >>

\* syslog entries: <<severity, message>>.
INFO == "LOG_INFO"
ERR == "LOG_ERR"

EXIT_SUCCESS == "EXIT_SUCCESS"
EXIT_FAILURE == "EXIT_FAILURE"

VARIABLES
    euid,       \* [Inst -> Euids]    geteuid() of the invocation
    pc,         \* [Inst -> STRING]   next statement of main() to execute
    status,     \* [Inst -> STRING]   how the process running main() ended, or "running"
    invoker,    \* [Inst -> STRING]   "main": not yet forked; "forked": parent after fork; "exited"
    pid,        \* [Inst -> Nat]      getpid() of the forked child, 0 before fork
    effects,    \* [Inst -> SUBSET STRING]  side effects performed so far
    handler,    \* [Inst -> BOOLEAN]  Daemon_Stop installed for SIGTERM
    log,        \* [Inst -> Seq]      syslog entries written by the instance
    initFail,   \* [Inst -> STRING]   the initialisation step that failed, or "none"
    sigterm,    \* [Inst -> BOOLEAN]  a SIGTERM has been delivered
    steps,      \* [Inst -> Seq]      statements of main() completed, in order
    lockHolder, \* owner of the record lock on the PID file
    pidFile,    \* Seq of characters: content of the PID file
    pin,        \* level of wiringPi pin 0
    edge,       \* edge mode of the pin: "none" or "rising"
    pending,    \* [Inst -> BOOLEAN]  an edge event waits for the dispatcher
    cb,         \* [Inst -> STRING]   position of the dispatcher / Button_Pressed
    sleepLeft,  \* [Inst -> 0..SleepSecs] seconds left of sleep(2)
    started,    \* [Inst -> Nat]      number of times Button_Pressed was entered
    samples,    \* [Inst -> Seq]      digitalRead results: [level, waited, held]
    execCalls,  \* [Inst -> Seq]      process images passed to execl
    heldHigh,   \* [Inst -> BOOLEAN]  pin has stayed HIGH since the edge being classified
    arms,       \* [Inst -> Nat]      number of successful wiringPiISR calls
    systemRc,   \* [Inst -> STRING]   outcome of system("gpio edge 0 none"): "none", "ok", "failed"
    presses     \* number of times the button has been pressed

procVars == <<euid, pc, status, invoker, pid, effects, handler, log, initFail, sigterm, steps>>
fileVars == <<lockHolder, pidFile>>
gpioVars == <<pin, edge, pending, cb, sleepLeft, started, samples, execCalls, heldHigh, arms,
              systemRc, presses>>
vars == <<procVars, fileVars, gpioVars>>

----------------------------------------------------------------------------
\* Processes.  Before fork the invoking process runs main(); after a
\* successful fork the child runs it and the parent only has exit() left.

NoProc == <<0, "none">>
Invoker(i) == <<i, "invoker">>
Daemon(i) == <<i, "daemon">>

CurrentProc(i) == IF invoker[i] = "main" THEN Invoker(i) ELSE Daemon(i)

Running(i) == status[i] = "running"

\* A process that terminates drops the record locks it owns.
ReleaseLocks(holder, proc) == IF holder = proc THEN NoProc ELSE holder

Init ==
    /\ euid \in [Inst -> Euids]
    /\ pc = [i \in Inst |-> "start"]
    /\ status = [i \in Inst |-> "running"]
    /\ invoker = [i \in Inst |-> "main"]
    /\ pid = [i \in Inst |-> 0]
    /\ effects = [i \in Inst |-> {}]
    /\ handler = [i \in Inst |-> FALSE]
    /\ log = [i \in Inst |-> << >>]
    /\ initFail = [i \in Inst |-> "none"]
    /\ sigterm = [i \in Inst |-> FALSE]
    /\ steps = [i \in Inst |-> << >>]
    /\ lockHolder = NoProc
    /\ pidFile = << >>
    /\ pin = LOW
    /\ edge = "none"
    /\ pending = [i \in Inst |-> FALSE]
    /\ cb = [i \in Inst |-> "none"]
    /\ sleepLeft = [i \in Inst |-> 0]
    /\ started = [i \in Inst |-> 0]
    /\ samples = [i \in Inst |-> << >>]
    /\ execCalls = [i \in Inst |-> << >>]
    /\ heldHigh = [i \in Inst |-> FALSE]
    /\ arms = [i \in Inst |-> 0]
    /\ systemRc = [i \in Inst |-> "none"]
    /\ presses = 0

----------------------------------------------------------------------------
\* Helpers.

Syslog(lg, severity, message) == Append(lg, <<severity, message>>)

\* geteuid() != 0 is refused.
\* (variant without the check: every caller is let through)
IsRoot_Any(e) == TRUE
IsRoot(e) == e = 0

RECURSIVE Decimal(_)
\* sprintf("%d"): the decimal digits of n, most significant first.
Decimal(n) ==
    LET digit == <<"0", "1", "2", "3", "4", "5", "6", "7", "8", "9">>[(n % 10) + 1]
    IN  IF n < 10 THEN <<digit>> ELSE Append(Decimal(n \div 10), digit)

\* getpid() in the child ("Call 'getpid()', don't use 'pid' variable").
\* (variant: the result of fork() is used, which is 0 in the child)
PidToWrite_ForkResult(i) == 0
PidToWrite(i) == pid[i]

\* sprintf(szPID, "%d\n", getpid())
FormatPid(p) == Append(Decimal(p), "\n")

\* write() of bytes at the start of a file opened without O_TRUNC or
\* O_APPEND: the bytes replace the first Len(bytes) characters, the rest stays.
WriteAtStart(file, bytes) ==
    [k \in 1..(IF Len(file) > Len(bytes) THEN Len(file) ELSE Len(bytes)) |->
        IF k <= Len(bytes) THEN bytes[k] ELSE file[k]]

\* The owner of the record lock after fork(): the lock stays with the
\* process that called lockf(); the child does not inherit it.
LockAfterFork(holder, i) == holder

\* exit(st) / termination of the process that runs main() in instance i.
Terminate(i, st) ==
    /\ status' = [status EXCEPT ![i] = st]
    /\ lockHolder' = ReleaseLocks(lockHolder, CurrentProc(i))

\* syslog(LOG_ERR, ...); exit(EXIT_FAILURE);
Fatal(i, why, message) ==
    /\ log' = [log EXCEPT ![i] = Syslog(@, ERR, message)]
    /\ initFail' = [initFail EXCEPT ![i] = why]
    /\ Terminate(i, EXIT_FAILURE)
    /\ UNCHANGED steps

\* exit(EXIT_FAILURE) with nothing logged.
SilentFailure(i, why) ==
    /\ initFail' = [initFail EXCEPT ![i] = why]
    /\ Terminate(i, EXIT_FAILURE)
    /\ UNCHANGED <<log, steps>>

\* The statement at pc[i] finished and main() goes on to statement next.
Continue(i, next) ==
    /\ pc' = [pc EXCEPT ![i] = next]
    /\ steps' = [steps EXCEPT ![i] = Append(@, pc[i])]
    /\ UNCHANGED <<status, initFail>>

At(i, where) == Running(i) /\ pc[i] = where

----------------------------------------------------------------------------
\* main()

\* setlogmask, openlog, syslog(LOG_INFO, "Daemon starting up")
Startup(i) ==
    /\ At(i, "start")
    /\ log' = [log EXCEPT ![i] = Syslog(@, INFO, "Daemon starting up")]
    /\ Continue(i, "geteuid")
    /\ UNCHANGED <<euid, invoker, pid, effects, handler, sigterm, fileVars, gpioVars>>

\* if (geteuid() != 0) { syslog(LOG_ERR, ...); exit(EXIT_FAILURE); }
CheckRoot(i) ==
    /\ At(i, "geteuid")
    /\ IF IsRoot(euid[i])
       THEN Continue(i, "stat") /\ UNCHANGED <<log, lockHolder>>
       ELSE Fatal(i, "notRoot", "This daemon can only be run by root user, exiting")
            /\ UNCHANGED pc
    /\ UNCHANGED <<euid, invoker, pid, effects, handler, sigterm, pidFile, gpioVars>>

\* if (stat("/usr/local/bin/gpio", &filestat) == -1) { ... exit(EXIT_FAILURE); }
CheckHelper(i) ==
    /\ At(i, "stat")
    /\ \E present \in BOOLEAN :
        IF present
        THEN Continue(i, "open") /\ UNCHANGED <<log, lockHolder>>
        ELSE Fatal(i, "noHelper", "The program '/usr/local/bin/gpio' is missing, exiting")
             /\ UNCHANGED pc
    /\ UNCHANGED <<euid, invoker, pid, effects, handler, sigterm, pidFile, gpioVars>>

\* pidFilehandle = open(PID_FILE, O_RDWR | O_CREAT, 0644); -1 is fatal
OpenPidFile(i) ==
    /\ At(i, "open")
    /\ \E ok \in BOOLEAN :
        IF ok
        THEN /\ Continue(i, "lockf")
             /\ effects' = [effects EXCEPT ![i] = @ \cup {"open"}]
             /\ UNCHANGED <<log, lockHolder>>
        ELSE /\ Fatal(i, "open", "Could not open PID lock file, exiting")
             /\ UNCHANGED <<pc, effects>>
    /\ UNCHANGED <<euid, invoker, pid, handler, sigterm, pidFile, gpioVars>>

\* if (lockf(pidFilehandle, F_TLOCK, 0) == -1) { ... exit(EXIT_FAILURE); }
\* F_TLOCK fails when another process owns a lock on the file.
LockPidFile(i) ==
    /\ At(i, "lockf")
    /\ IF lockHolder \in {NoProc, CurrentProc(i)}
       THEN /\ lockHolder' = CurrentProc(i)
            /\ effects' = [effects EXCEPT ![i] = @ \cup {"lock"}]
            /\ Continue(i, "fork")
            /\ UNCHANGED log
       ELSE /\ Fatal(i, "lock", "Could not lock PID lock file, exiting")
            /\ UNCHANGED <<pc, effects>>
    /\ UNCHANGED <<euid, invoker, pid, handler, sigterm, pidFile, gpioVars>>

\* pids of the processes that still exist
LivePids == {pid[j] : j \in {k \in Inst : Running(k) /\ invoker[k] # "main"}}

\* pid = fork(); if (pid < 0) exit(EXIT_FAILURE);
\* On success the child goes on in main() and the parent is left with
\* exit(EXIT_SUCCESS).
Fork(i) ==
    /\ At(i, "fork")
    /\ \/ /\ SilentFailure(i, "fork")
          /\ UNCHANGED <<pc, invoker, pid, effects>>
       \/ \E p \in PidPool \ LivePids :
          /\ invoker' = [invoker EXCEPT ![i] = "forked"]
          /\ pid' = [pid EXCEPT ![i] = p]
          /\ effects' = [effects EXCEPT ![i] = @ \cup {"fork"}]
          /\ lockHolder' = LockAfterFork(lockHolder, i)
          /\ Continue(i, "write")
          /\ UNCHANGED log
    /\ UNCHANGED <<euid, handler, sigterm, pidFile, gpioVars>>

\* if (pid > 0) exit(EXIT_SUCCESS);   (the parent; its status is success)
ParentExit(i) ==
    /\ invoker[i] = "forked"
    /\ invoker' = [invoker EXCEPT ![i] = "exited"]
    /\ lockHolder' = ReleaseLocks(lockHolder, Invoker(i))
    /\ UNCHANGED <<euid, steps, pc, status, pid, effects, handler, log, initFail, sigterm,
                   pidFile, gpioVars>>

\* sprintf(szPID, "%d\n", getpid()); write(pidFilehandle, szPID, strlen(szPID));
\* umask(0);
WritePid(i) ==
    /\ At(i, "write")
    /\ pidFile' = WriteAtStart(pidFile, FormatPid(PidToWrite(i)))
    /\ effects' = [effects EXCEPT ![i] = @ \cup {"write", "umask"}]
    /\ Continue(i, "setsid")
    /\ UNCHANGED <<euid, invoker, pid, handler, log, sigterm, lockHolder, gpioVars>>

\* sid = setsid(); if (sid < 0) exit(EXIT_FAILURE);
Setsid(i) ==
    /\ At(i, "setsid")
    /\ \/ /\ SilentFailure(i, "setsid")
          /\ UNCHANGED <<pc, effects>>
       \/ /\ effects' = [effects EXCEPT ![i] = @ \cup {"setsid"}]
          /\ Continue(i, "chdir")
          /\ UNCHANGED <<log, lockHolder>>
    /\ UNCHANGED <<euid, invoker, pid, handler, sigterm, pidFile, gpioVars>>

\* if (chdir("/") < 0) exit(EXIT_FAILURE);
Chdir(i) ==
    /\ At(i, "chdir")
    /\ \/ /\ SilentFailure(i, "chdir")
          /\ UNCHANGED <<pc, effects>>
       \/ /\ effects' = [effects EXCEPT ![i] = @ \cup {"chdir"}]
          /\ Continue(i, "close")
          /\ UNCHANGED <<log, lockHolder>>
    /\ UNCHANGED <<euid, invoker, pid, handler, sigterm, pidFile, gpioVars>>

\* close(STDIN_FILENO); close(STDOUT_FILENO); close(STDERR_FILENO);
CloseStd(i) ==
    /\ At(i, "close")
    /\ effects' = [effects EXCEPT ![i] = @ \cup {"close"}]
    /\ Continue(i, "signal")
    /\ UNCHANGED <<euid, invoker, pid, handler, log, sigterm, fileVars, gpioVars>>

\* signal(SIGTERM, &Daemon_Stop);
\* (variant: main() goes on to the GPIO set-up without registering the handler)
InstallHandler_Skipped(i) ==
    /\ At(i, "signal")
    /\ effects' = [effects EXCEPT ![i] = @ \cup {"signal"}]
    /\ Continue(i, "wiringPiSetup")
    /\ UNCHANGED <<euid, invoker, pid, handler, log, sigterm, fileVars, gpioVars>>
InstallHandler(i) ==
    /\ At(i, "signal")
    /\ handler' = [handler EXCEPT ![i] = TRUE]
    /\ effects' = [effects EXCEPT ![i] = @ \cup {"signal"}]
    /\ Continue(i, "wiringPiSetup")
    /\ UNCHANGED <<euid, invoker, pid, log, sigterm, fileVars, gpioVars>>

\* if (wiringPiSetup() == -1) { syslog(LOG_ERR, ...); exit(EXIT_FAILURE); }
\* (variant: the return value is not tested)
WiringPiSetup_Unchecked(i) ==
    /\ At(i, "wiringPiSetup")
    /\ \E ok \in BOOLEAN :
        IF ok
        THEN /\ effects' = [effects EXCEPT ![i] = @ \cup {"wiringPiSetup"}]
             /\ Continue(i, "wiringPiISR")
        ELSE /\ pc' = [pc EXCEPT ![i] = "wiringPiISR"]
             /\ UNCHANGED <<effects, steps, status, initFail>>
    /\ UNCHANGED <<euid, invoker, pid, handler, sigterm, log, fileVars, gpioVars>>
WiringPiSetup(i) ==
    /\ At(i, "wiringPiSetup")
    /\ \E ok \in BOOLEAN :
        IF ok
        THEN /\ effects' = [effects EXCEPT ![i] = @ \cup {"wiringPiSetup"}]
             /\ Continue(i, "wiringPiISR")
             /\ UNCHANGED <<log, lockHolder>>
        ELSE /\ Fatal(i, "wiringPiSetup", "'wiringPi' library couldn't be initialized, exiting")
             /\ UNCHANGED <<pc, effects>>
    /\ UNCHANGED <<euid, invoker, pid, handler, sigterm, pidFile, gpioVars>>

\* pinMode(PIN, INPUT); pullUpDnControl(PIN, PUD_DOWN);
\* if (wiringPiISR(PIN, INT_EDGE_RISING, &Button_Pressed) == -1) { ... }
\* On success the pin's edge mode is "rising" and the dispatcher that calls
\* Button_Pressed waits for an edge.
ArmButtonMonitor(i) ==
    /\ At(i, "wiringPiISR")
    /\ \E ok \in BOOLEAN :
        IF ok
        THEN /\ effects' = [effects EXCEPT ![i] = @ \cup {"pinMode", "wiringPiISR"}]
             /\ edge' = "rising"
             /\ cb' = [cb EXCEPT ![i] = "wait"]
             /\ arms' = [arms EXCEPT ![i] = @ + 1]
             /\ Continue(i, "idle")
             /\ UNCHANGED <<log, lockHolder>>
        ELSE /\ effects' = [effects EXCEPT ![i] = @ \cup {"pinMode"}]
             /\ Fatal(i, "wiringPiISR", "Unable to set interrupt handler for specified pin, exiting")
             /\ UNCHANGED <<pc, edge, cb, arms>>
    /\ UNCHANGED <<euid, invoker, pid, handler, sigterm, pidFile,
                   pin, pending, sleepLeft, started, samples, execCalls, heldHigh, systemRc,
                   presses>>

\* while (true) { sleep(60); }  -- the loop changes nothing and never ends
\* (variant: main() falls out of the loop and returns EXIT_SUCCESS)
IdleLoop_Returns(i) ==
    /\ At(i, "idle")
    /\ Terminate(i, EXIT_SUCCESS)
    /\ UNCHANGED <<euid, pc, invoker, pid, effects, handler, log, initFail, sigterm, steps,
                   pidFile, gpioVars>>
IdleLoop(i) ==
    /\ At(i, "idle")
    /\ UNCHANGED vars

----------------------------------------------------------------------------
\* The push button (environment) and the delivery of rising edges.

\* Instances whose dispatcher is notified of a rising edge on the pin.
Notified == IF edge = "rising" THEN {i \in Inst : Running(i) /\ cb[i] # "none"} ELSE {}

\* The button goes down: LOW -> HIGH.  With edge mode "rising" every
\* dispatcher registered by wiringPiISR gets the event.
Press ==
    /\ pin = LOW
    /\ presses < MaxPresses
    /\ pin' = HIGH
    /\ presses' = presses + 1
    /\ pending' = [i \in Inst |-> pending[i] \/ i \in Notified]
    /\ heldHigh' = [i \in Inst |->
                      IF i \in Notified /\ cb[i] = "wait" /\ ~pending[i]
                      THEN TRUE ELSE heldHigh[i]]
    /\ UNCHANGED <<procVars, fileVars, edge, cb, sleepLeft, started, samples, execCalls, arms,
                   systemRc>>

\* The button is let go: HIGH -> LOW (pull-down).
Release ==
    /\ pin = HIGH
    /\ pin' = LOW
    /\ heldHigh' = [i \in Inst |-> FALSE]
    /\ UNCHANGED <<procVars, fileVars, edge, pending, cb, sleepLeft, started, samples,
                   execCalls, arms, systemRc, presses>>

\* The dispatcher registered by wiringPiISR calls Button_Pressed for a
\* pending edge; it is busy until the callback returns.
Dispatch(i) ==
    /\ Running(i)
    /\ cb[i] = "wait"
    /\ pending[i]
    /\ pending' = [pending EXCEPT ![i] = FALSE]
    /\ cb' = [cb EXCEPT ![i] = "system"]
    /\ started' = [started EXCEPT ![i] = @ + 1]
    /\ UNCHANGED <<procVars, fileVars, pin, edge, sleepLeft, samples, execCalls, heldHigh, arms,
                   systemRc, presses>>

----------------------------------------------------------------------------
\* Button_Pressed()

\* system("/usr/local/bin/gpio edge 0 none"); the return value is not
\* looked at.  When the command fails the edge mode stays as it was.
\* Then sleep(2) begins.
\* (variant: a failed command ends the process with EXIT_FAILURE)
Button_Pressed_Disarm_Checked(i) ==
    /\ Running(i)
    /\ cb[i] = "system"
    /\ \E ok \in BOOLEAN :
        /\ edge' = IF ok THEN "none" ELSE edge
        /\ systemRc' = [systemRc EXCEPT ![i] = IF ok THEN "ok" ELSE "failed"]
        /\ IF ok
           THEN /\ cb' = [cb EXCEPT ![i] = "sleep"]
                /\ sleepLeft' = [sleepLeft EXCEPT ![i] = SleepSecs]
                /\ UNCHANGED <<status, lockHolder>>
           ELSE /\ Terminate(i, EXIT_FAILURE)
                /\ UNCHANGED <<cb, sleepLeft>>
    /\ UNCHANGED <<euid, pc, invoker, pid, effects, handler, log, initFail, sigterm, steps,
                   pidFile, pin, pending, started, samples, execCalls, heldHigh, arms, presses>>
Button_Pressed_Disarm(i) ==
    /\ Running(i)
    /\ cb[i] = "system"
    /\ \E ok \in BOOLEAN :
        /\ edge' = IF ok THEN "none" ELSE edge
        /\ systemRc' = [systemRc EXCEPT ![i] = IF ok THEN "ok" ELSE "failed"]
    /\ cb' = [cb EXCEPT ![i] = "sleep"]
    /\ sleepLeft' = [sleepLeft EXCEPT ![i] = SleepSecs]
    /\ UNCHANGED <<procVars, fileVars, pin, pending, started, samples, execCalls, heldHigh, arms,
                   presses>>

\* One second of sleep(2) goes by.
Button_Pressed_Sleep(i) ==
    /\ Running(i)
    /\ cb[i] = "sleep"
    /\ sleepLeft[i] > 0
    /\ sleepLeft' = [sleepLeft EXCEPT ![i] = @ - 1]
    /\ UNCHANGED <<procVars, fileVars, pin, edge, pending, cb, started, samples, execCalls,
                   heldHigh, arms, systemRc, presses>>

\* switch (digitalRead(PIN)): case LOW execl("/sbin/poweroff", ...),
\* case HIGH execl("/sbin/shutdown", "shutdown", "-r", "now", NULL)
\* (variants: the two cases exchanged; the HIGH case missing)
ActionFor_Swapped(level) == IF level = LOW THEN RESTART ELSE POWER_OFF
ActionFor_AlwaysPowerOff(level) == POWER_OFF
ActionFor(level) == IF level = LOW THEN POWER_OFF ELSE RESTART

\* syslog(LOG_INFO, ...) before the execl of each case
AnnounceFor(level) == IF level = LOW THEN "Shutting down system" ELSE "Restarting system"

\* syslog(LOG_ERR, ...) after a failed execl of each case
FailureFor(level) ==
    IF level = LOW THEN "'poweroff' program failed to run" ELSE "'shutdown' program failed to run"

\* execl() returned -1: syslog(LOG_ERR, ...); break; exit(EXIT_SUCCESS);
\* (variants: the callback returns to the dispatcher instead of exiting;
\* the exit status is EXIT_FAILURE)
ExecFailed_Returns(i, level) ==
    /\ log' = [log EXCEPT ![i] = Syslog(Syslog(@, INFO, AnnounceFor(level)), ERR, FailureFor(level))]
    /\ cb' = [cb EXCEPT ![i] = "wait"]
    /\ UNCHANGED <<status, lockHolder>>
ExecFailed_ExitFailure(i, level) ==
    /\ log' = [log EXCEPT ![i] = Syslog(Syslog(@, INFO, AnnounceFor(level)), ERR, FailureFor(level))]
    /\ cb' = [cb EXCEPT ![i] = "exec_failed"]
    /\ Terminate(i, EXIT_FAILURE)
ExecFailed(i, level) ==
    /\ log' = [log EXCEPT ![i] = Syslog(Syslog(@, INFO, AnnounceFor(level)), ERR, FailureFor(level))]
    /\ cb' = [cb EXCEPT ![i] = "exec_failed"]
    /\ Terminate(i, EXIT_SUCCESS)

\* execl() succeeded: the process image is replaced, nothing of the daemon
\* runs any more.
ExecSucceeded(i, level) ==
    /\ log' = [log EXCEPT ![i] = Syslog(@, INFO, AnnounceFor(level))]
    /\ cb' = [cb EXCEPT ![i] = "exec_ok"]
    /\ Terminate(i, "replaced")

\* sleep(2) has returned: the whole delay has gone by.
\* (variant: digitalRead does not wait for the delay)
SleepOver_Early(i) == TRUE
SleepOver(i) == sleepLeft[i] = 0

\* sleep(2) is over: digitalRead(PIN), syslog, execl.
Button_Pressed_Sample(i) ==
    /\ Running(i)
    /\ cb[i] = "sleep"
    /\ SleepOver(i)
    /\ LET level == pin IN
        /\ samples' = [samples EXCEPT ![i] =
                          Append(@, [level |-> level,
                                     waited |-> SleepSecs - sleepLeft[i],
                                     held |-> heldHigh[i]])]
        /\ execCalls' = [execCalls EXCEPT ![i] = Append(@, ActionFor(level))]
        /\ \/ ExecSucceeded(i, level)
           \/ ExecFailed(i, level)
    /\ UNCHANGED <<euid, steps, pc, invoker, pid, effects, handler, initFail, sigterm, pidFile,
                   pin, edge, pending, sleepLeft, started, heldHigh, arms, systemRc, presses>>

----------------------------------------------------------------------------
\* SIGTERM

\* Daemon_Stop(): syslog(LOG_INFO, "Stopping daemon"); exit(EXIT_SUCCESS);
\* (variant: the handler logs and returns)
Daemon_Stop_NoExit(i) ==
    /\ Running(i)
    /\ handler[i]
    /\ ~sigterm[i]
    /\ sigterm' = [sigterm EXCEPT ![i] = TRUE]
    /\ log' = [log EXCEPT ![i] = Syslog(@, INFO, "Stopping daemon")]
    /\ UNCHANGED <<euid, steps, pc, status, invoker, pid, effects, handler, initFail, fileVars, gpioVars>>
Daemon_Stop(i) ==
    /\ Running(i)
    /\ handler[i]
    /\ sigterm' = [sigterm EXCEPT ![i] = TRUE]
    /\ log' = [log EXCEPT ![i] = Syslog(@, INFO, "Stopping daemon")]
    /\ Terminate(i, EXIT_SUCCESS)
    /\ UNCHANGED <<euid, steps, pc, invoker, pid, effects, handler, initFail, pidFile, gpioVars>>

\* SIGTERM while the disposition is still the default one (before
\* signal(SIGTERM, &Daemon_Stop) has run): the process is killed.
SigtermDefault(i) ==
    /\ Running(i)
    /\ ~handler[i]
    /\ sigterm' = [sigterm EXCEPT ![i] = TRUE]
    /\ Terminate(i, "killed")
    /\ UNCHANGED <<euid, steps, pc, invoker, pid, effects, handler, log, initFail, pidFile, gpioVars>>

----------------------------------------------------------------------------
Next ==
    \/ \E i \in Inst : Startup(i)
    \/ \E i \in Inst : CheckRoot(i)
    \/ \E i \in Inst : CheckHelper(i)
    \/ \E i \in Inst : OpenPidFile(i)
    \/ \E i \in Inst : LockPidFile(i)
    \/ \E i \in Inst : Fork(i)
    \/ \E i \in Inst : ParentExit(i)
    \/ \E i \in Inst : WritePid(i)
    \/ \E i \in Inst : Setsid(i)
    \/ \E i \in Inst : Chdir(i)
    \/ \E i \in Inst : CloseStd(i)
    \/ \E i \in Inst : InstallHandler(i)
    \/ \E i \in Inst : WiringPiSetup(i)
    \/ \E i \in Inst : ArmButtonMonitor(i)
    \/ \E i \in Inst : IdleLoop(i)
    \/ Press
    \/ Release
    \/ \E i \in Inst : Dispatch(i)
    \/ \E i \in Inst : Button_Pressed_Disarm(i)
    \/ \E i \in Inst : Button_Pressed_Sleep(i)
    \/ \E i \in Inst : Button_Pressed_Sample(i)
    \/ \E i \in Inst : Daemon_Stop(i)
    \/ \E i \in Inst : SigtermDefault(i)

Spec == Init /\ [][Next]_vars

\* The steps of Button_Pressed() are calls that return: system() runs the
\* gpio command to its end, sleep(2) elapses, and digitalRead/execl/exit
\* follow.  Nothing is assumed about signals, presses or the start-up path.
Fairness ==
    \A i \in Inst :
        /\ WF_vars(Button_Pressed_Disarm(i))
        /\ WF_vars(Button_Pressed_Sleep(i))
        /\ WF_vars(Button_Pressed_Sample(i))

FairSpec == Spec /\ Fairness

----------------------------------------------------------------------------
\* Properties.

LastLog(i) == log[i][Len(log[i])]

\* Button_Pressed has run to its end: execl was called.
Classified(i) == cb[i] \in {"exec_ok", "exec_failed"}

\* main() of instance i is past the successful lockf().
PastLock(i) ==
    pc[i] \in {"fork", "write", "setsid", "chdir", "close", "signal",
               "wiringPiSetup", "wiringPiISR", "idle"}

\* C1: every process image handed to execl by Button_Pressed is the one
\* selected by the one pin sample taken after the full 2-second wait: a LOW
\* sample gives /sbin/poweroff and never the restart, a HIGH sample gives
\* /sbin/shutdown -r now and never the power-off.
C1_ActionFromSample ==
    \A i \in Inst :
        /\ Len(execCalls[i]) = Len(samples[i])
        /\ \A k \in 1..Len(execCalls[i]) :
            /\ samples[i][k].waited = SleepSecs
            /\ samples[i][k].level = LOW =>
                   execCalls[i][k] = POWER_OFF /\ execCalls[i][k] # RESTART
            /\ samples[i][k].level = HIGH =>
                   execCalls[i][k] = RESTART /\ execCalls[i][k] # POWER_OFF

\* C1 witness: the button was let go and pressed again inside the window, the
\* sample read HIGH and the restart was the image handed to execl.
C1_Witness ==
    \E i \in Inst :
        /\ Len(samples[i]) = 1
        /\ samples[i][1].level = HIGH
        /\ ~samples[i][1].held
        /\ execCalls[i] = <<RESTART>>

\* C2 (as claimed): during the whole 2-second delay of a classification the
\* pin's edge mode is "none" (the source was disarmed before the delay
\* began), and no process ever enters Button_Pressed more than once.
C2_DisarmedBeforeDelay ==
    \A i \in Inst :
        /\ (Running(i) /\ cb[i] = "sleep") => edge = "none"
        /\ started[i] <= 1

C5_ExecFailureExitsSuccess ==
    \A i \in Inst :
        cb[i] = "exec_failed" =>
            /\ status[i] = EXIT_SUCCESS
            /\ LastLog(i)[1] = ERR
            /\ LastLog(i)[2] = FailureFor(samples[i][1].level)
            /\ started[i] = 1
            /\ Len(execCalls[i]) = 1
            /\ arms[i] = 1

\* C5 witness: the execl of /sbin/poweroff failed.
C5_Witness ==
    \E i \in Inst :
        /\ cb[i] = "exec_failed"
        /\ execCalls[i] = <<POWER_OFF>>
        /\ status[i] = EXIT_SUCCESS

\* C6 (as claimed): two instances are never both alive past the lockf() of
\* the PID file, and while a daemon that wrote its pid runs the PID file
\* holds that pid.
C6_SingleInstance ==
    /\ \A i, j \in Inst :
        i # j => ~(Running(i) /\ PastLock(i) /\ Running(j) /\ PastLock(j))
    /\ \A i \in Inst :
        (Running(i) /\ "write" \in effects[i]) => pidFile = FormatPid(pid[i])

\* C7 (as claimed): from the successful lockf() on, a process of the
\* instance owns the lock on the PID file as long as the daemon runs, and
\* once the parent has exited that owner is the daemon.
C7_DaemonHoldsLock ==
    \A i \in Inst :
        (Running(i) /\ PastLock(i)) =>
            /\ lockHolder \in {Invoker(i), Daemon(i)}
            /\ invoker[i] = "exited" => lockHolder = Daemon(i)

\* C8: an invocation whose effective user is not root never gets past the
\* privilege check: it opens, locks and writes no PID file, does not fork,
\* installs no handler, touches no pin, arms nothing, and when it ends by
\* itself it ends with failure status.
C8_PrivilegeGate ==
    \A i \in Inst :
        euid[i] # 0 =>
            /\ effects[i] = {}
            /\ pc[i] \in {"start", "geteuid"}
            /\ invoker[i] = "main"
            /\ lockHolder \notin {Invoker(i), Daemon(i)}
            /\ ~handler[i]
            /\ cb[i] = "none"
            /\ arms[i] = 0
            /\ (~Running(i) /\ ~sigterm[i]) =>
                   status[i] = EXIT_FAILURE /\ initFail[i] = "notRoot"

\* C8 witness: a non-root invocation has exited with failure status.
C8_Witness ==
    \E i \in Inst :
        /\ euid[i] # 0
        /\ status[i] = EXIT_FAILURE
        /\ LastLog(i)[1] = ERR

\* C9 (as claimed): after every initialisation failure the process has
\* exited with failure status, its last log entry is an ERR entry, and it
\* has neither armed the interrupt source nor reached the idle loop.
C9_InitFailureLoggedAndFatal ==
    \A i \in Inst :
        initFail[i] # "none" =>
            /\ status[i] = EXIT_FAILURE
            /\ LastLog(i)[1] = ERR
            /\ pc[i] # "idle"
            /\ arms[i] = 0

C11_StaysDisarmed ==
    \A i \in Inst :
        cb[i] \in {"sleep", "exec_ok", "exec_failed"} =>
            /\ edge = "none"
            /\ arms[i] = 1
            /\ started[i] = 1

\* Statement a of main() was completed before statement b in instance i.
Precedes(i, a, b) ==
    \E m, n \in 1..Len(steps[i]) : m < n /\ steps[i][m] = a /\ steps[i][n] = b

Completed(i, a) == \E n \in 1..Len(steps[i]) : steps[i][n] = a

Armed(i) == arms[i] >= 1 \/ cb[i] # "none" \/ started[i] >= 1

\* C13: a process that has armed the interrupt source (and so every process
\* in which a classification runs) is root and has completed, in this
\* order, the privilege check, the helper check, the lock acquisition, the
\* detachment (fork, setsid, chdir, close) and the GPIO initialisation, with
\* no initialisation failure; a process with an initialisation failure has
\* armed nothing and classifies nothing.
C13_ArmedOnlyAfterInit ==
    \A i \in Inst :
        /\ Armed(i) =>
            /\ euid[i] = 0
            /\ initFail[i] = "none"
            /\ Precedes(i, "geteuid", "stat")
            /\ Precedes(i, "stat", "lockf")
            /\ Precedes(i, "lockf", "fork")
            /\ Precedes(i, "fork", "setsid")
            /\ Precedes(i, "setsid", "chdir")
            /\ Precedes(i, "chdir", "close")
            /\ Precedes(i, "close", "wiringPiSetup")
            /\ Precedes(i, "wiringPiSetup", "wiringPiISR")
        /\ initFail[i] # "none" => ~Armed(i) /\ samples[i] = << >>

\* C13 witness: a classification has started in a process that went
\* through the whole initialisation.
C13_Witness ==
    \E i \in Inst :
        /\ started[i] = 1
        /\ cb[i] = "system"
        /\ Completed(i, "wiringPiISR")

\* C14: every classification that starts ends with the process gone
\* (terminated or replaced by the power program); once a classification has
\* started the callback never goes back to waiting for an edge, and a
\* process that has sampled the pin is no longer running, whichever level
\* was sampled and whether execl succeeded or failed.
C14_ClassificationEnds ==
    /\ \A i \in Inst : (started[i] >= 1) ~> ~Running(i)
    /\ [][\A i \in Inst : started[i] >= 1 => cb'[i] # "wait"]_vars
    /\ [](\A i \in Inst : samples[i] # << >> => ~Running(i))

\* C14 witness: a classification that sampled HIGH and whose execl failed
\* has ended the process.
C14_Witness ==
    \E i \in Inst :
        /\ started[i] = 1
        /\ cb[i] = "exec_failed"
        /\ samples[i][1].level = HIGH
        /\ ~Running(i)

\* main() is in its idle loop and the callback waits for an edge.
IdleState(i) == Running(i) /\ pc[i] = "idle" /\ cb[i] = "wait"

C16_SampledOnceAfterDelay ==
    /\ [](\A i \in Inst :
            /\ Len(samples[i]) <= 1
            /\ Classified(i) => Len(samples[i]) = 1
            /\ \A k \in 1..Len(samples[i]) :
                /\ samples[i][k].waited = SleepSecs
                /\ systemRc[i] # "none"
                /\ started[i] = 1)
    /\ [][\A i \in Inst :
            samples'[i] # samples[i] =>
                /\ cb[i] = "sleep" /\ sleepLeft[i] = 0
                /\ systemRc[i] # "none"
                /\ pc[i] = "idle" /\ pc'[i] = "idle"
                /\ sigterm'[i] = sigterm[i]
                /\ Len(samples'[i]) = Len(samples[i]) + 1
                /\ samples'[i][Len(samples'[i])].level = pin
                /\ execCalls'[i] = Append(execCalls[i], ActionFor(pin))]_vars

\* C16 witness: the button was pressed, let go, pressed again and let go
\* again before the sample point; the one sample read LOW after the whole
\* delay.
C16_Witness ==
    \E i \in Inst :
        /\ Len(samples[i]) = 1
        /\ samples[i][1].level = LOW
        /\ samples[i][1].waited = SleepSecs
        /\ ~samples[i][1].held
        /\ systemRc[i] = "ok"
        /\ presses = 2

\* The log of instance i has the entry written by Daemon_Stop.
LoggedStopping(i) == \E k \in 1..Len(log[i]) : log[i][k] = <<INFO, "Stopping daemon">>

\* C17: whenever the interrupt source has been armed by a process or its
\* classification is under way, and already from the GPIO set-up on,
\* Daemon_Stop is installed, and signal() came before wiringPiSetup and
\* wiringPiISR; a SIGTERM delivered to a process that has not yet installed
\* the handler kills it: no "Stopping daemon" entry, no success status,
\* nothing armed.
C17_HandlerBeforeArming ==
    \A i \in Inst :
        /\ (Armed(i) \/ pc[i] \in {"wiringPiSetup", "wiringPiISR", "idle"}) =>
              handler[i] /\ Completed(i, "signal")
        /\ Armed(i) =>
              /\ Precedes(i, "signal", "wiringPiSetup")
              /\ Precedes(i, "signal", "wiringPiISR")
        /\ handler[i] <=> Completed(i, "signal")
        /\ (sigterm[i] /\ ~handler[i]) =>
              /\ status[i] = "killed"
              /\ status[i] # EXIT_SUCCESS
              /\ ~LoggedStopping(i)
              /\ ~Armed(i)
              /\ pc[i] \in {"start", "geteuid", "stat", "open", "lockf", "fork", "write",
                            "setsid", "chdir", "close", "signal"}
        /\ LoggedStopping(i) => handler[i] /\ sigterm[i]

\* C17 witness: SIGTERM reached the forked child during detachment, before
\* signal() was called.
C17_Witness ==
    \E i \in Inst :
        /\ sigterm[i]
        /\ ~handler[i]
        /\ invoker[i] # "main"
        /\ pc[i] = "chdir"
        /\ status[i] = "killed"

\* C18: whatever system() returned, Button_Pressed goes on to the delay of
\* SleepSecs seconds in the same way, the process keeps running, and a
\* failed command leaves the edge mode as it was; a classification that
\* completed after a failed command has one sample, taken after the whole
\* delay, and one execl call chosen from that sample.
C18_DisarmOutcomeIgnored ==
    /\ [](\A i \in Inst :
            /\ systemRc[i] # "none" => cb[i] \in {"sleep", "exec_ok", "exec_failed"}
            /\ (systemRc[i] = "failed" /\ Classified(i)) =>
                  /\ Len(samples[i]) = 1
                  /\ samples[i][1].waited = SleepSecs
                  /\ execCalls[i] = <<ActionFor(samples[i][1].level)>>)
    /\ [][\A i \in Inst :
            (cb[i] = "system" /\ cb'[i] # "system") =>
                /\ cb'[i] = "sleep"
                /\ sleepLeft'[i] = SleepSecs
                /\ status'[i] = "running"
                /\ log'[i] = log[i]
                /\ systemRc'[i] \in {"ok", "failed"}
                /\ systemRc'[i] = "failed" => edge' = edge
                /\ systemRc'[i] = "ok" => edge' = "none"]_vars

\* C18 witness: the gpio command failed, the edge mode is still "rising",
\* and the classification went through the delay, the sample and a
\* successful execl.
C18_Witness ==
    \E i \in Inst :
        /\ systemRc[i] = "failed"
        /\ edge = "rising"
        /\ cb[i] = "exec_ok"
        /\ Len(samples[i]) = 1
        /\ samples[i][1].waited = SleepSecs

====
